---- MODULE Spec2Model ----
(***************************************************************************)
(* Model of the 92Y Career Auto-Pilot (src/app.py): the Session State      *)
(* store, the model invocation wrapper call_model, and the workflow        *)
(* controller whose script re-executes top to bottom on every interaction. *)
(*                                                                         *)
(* Text is a sequence of tokens.  A token is a whitespace character, the   *)
(* code-fence marker, the fence tag "json", an ordinary character, or a    *)
(* token standing for one complete JSON document.                          *)
(***************************************************************************)
EXTENDS Integers, Sequences, FiniteSets, TLC

VARIABLES
    session_state,    \* st.session_state restricted to the STATE_DEFAULTS keys
    rerun_requested,  \* TRUE after st.rerun(): the next script run is automatic
    run,              \* what the last script run did (button, calls, messages)
    init_calls,       \* history: number of init_model invocations so far
    passes,           \* history: outcome of each generation pass since the last Confirm
    kw_from,          \* history: which statement last stored session_state.keywords
    cm_in,            \* call_model under test: its arguments
    cm_out,           \* call_model under test: its result, or Pending
    fn_in,            \* a pure function under test: its arguments
    fn_out            \* a pure function under test: its result, or NotApplied

vars == <<session_state, rerun_requested, run, init_calls, passes, kw_from, cm_in, cm_out,
          fn_in, fn_out>>

-----------------------------------------------------------------------------
(* Bounds *)

MaxRetries == 3      \* largest retry count given to call_model under test
MaxInitCalls == 2    \* init_model invocations followed in one session
MaxGenPasses == 2    \* generation passes followed after one Confirm

-----------------------------------------------------------------------------
(* Python values *)

None == [t |-> "None"]
PyStr(s) == [t |-> "str", s |-> s]
PyList(items) == [t |-> "list", items |-> items]
PyDict(name, n) == [t |-> "dict", name |-> name, size |-> n]

\* Python truthiness of a stored value
Truthy(v) ==
    CASE v.t = "None" -> FALSE
      [] v.t = "str"  -> v.s /= <<>>
      [] v.t = "list" -> v.items /= <<>>
      [] v.t = "dict" -> v.size > 0
      [] OTHER        -> TRUE

-----------------------------------------------------------------------------
(* str.strip and the fence trimming of call_model *)

\* the three-backquote code-fence marker, as one token
FENCE == "<fence>"

IsSpace(c) == c \in {" ", "\n"}

RECURSIVE lstrip(_)
lstrip(s) == IF s = <<>> THEN s
             ELSE IF IsSpace(Head(s)) THEN lstrip(Tail(s)) ELSE s

RECURSIVE rstrip(_)
rstrip(s) == IF s = <<>> THEN s
             ELSE IF IsSpace(s[Len(s)]) THEN rstrip(SubSeq(s, 1, Len(s) - 1)) ELSE s

strip(s) == rstrip(lstrip(s))

\* first re.sub: drop a leading fence, an optional json tag and the whitespace after it
sub_leading_fence(text) ==
    IF text /= <<>> /\ Head(text) = FENCE
    THEN LET a == Tail(text)
             b == IF a /= <<>> /\ Head(a) = "json" THEN Tail(a) ELSE a
         IN  lstrip(b)
    ELSE text

\* second re.sub: drop a trailing fence and the whitespace before it
sub_trailing_fence(text) ==
    IF text /= <<>> /\ text[Len(text)] = FENCE
    THEN rstrip(SubSeq(text, 1, Len(text) - 1))
    ELSE text

\* response.text.strip() followed by the startswith-fence branch
clean_text(raw) ==
    LET text == strip(raw)
    IN  IF text /= <<>> /\ Head(text) = FENCE
        THEN sub_trailing_fence(sub_leading_fence(text))
        ELSE text

-----------------------------------------------------------------------------
(* call_model: responses[k+1] is what the service does on attempt k,       *)
(* either [ok |-> TRUE, text |-> raw] or [ok |-> FALSE, err |-> e].        *)
(* Sleep durations are in tenths of a second.                              *)

BACKOFF_TENTHS == 15

sleep_after(attempt) == BACKOFF_TENTHS * (attempt + 1)

RECURSIVE call_model_loop_keeps_first_error(_, _, _, _, _)
\* call_model_loop, except that last_err is assigned by the first failure only
call_model_loop_keeps_first_error(responses, retries, attempt, last_err, sleeps) ==
    IF attempt > retries
    THEN [ok |-> FALSE, err |-> last_err, attempts |-> attempt, sleeps |-> sleeps]
    ELSE LET r == responses[attempt + 1]
         IN  IF r.ok
             THEN [ok |-> TRUE, text |-> clean_text(r.text),
                   attempts |-> attempt + 1, sleeps |-> sleeps]
             ELSE call_model_loop_keeps_first_error(responses, retries, attempt + 1,
                      IF last_err = "None" THEN r.err ELSE last_err,
                      IF attempt < retries
                      THEN Append(sleeps, sleep_after(attempt))
                      ELSE sleeps)

RECURSIVE call_model_loop_sleeps_after_last(_, _, _, _, _)
\* call_model_loop, except that it sleeps after the final attempt as well
call_model_loop_sleeps_after_last(responses, retries, attempt, last_err, sleeps) ==
    IF attempt > retries
    THEN [ok |-> FALSE, err |-> last_err, attempts |-> attempt, sleeps |-> sleeps]
    ELSE LET r == responses[attempt + 1]
         IN  IF r.ok
             THEN [ok |-> TRUE, text |-> clean_text(r.text),
                   attempts |-> attempt + 1, sleeps |-> sleeps]
             ELSE call_model_loop_sleeps_after_last(responses, retries, attempt + 1, r.err,
                      Append(sleeps, sleep_after(attempt)))

RECURSIVE call_model_loop(_, _, _, _, _)
call_model_loop(responses, retries, attempt, last_err, sleeps) ==
    IF attempt > retries
    THEN [ok |-> FALSE, err |-> last_err, attempts |-> attempt, sleeps |-> sleeps]
    ELSE LET r == responses[attempt + 1]
         IN  IF r.ok
             THEN [ok |-> TRUE, text |-> clean_text(r.text),
                   attempts |-> attempt + 1, sleeps |-> sleeps]
             ELSE call_model_loop(responses, retries, attempt + 1, r.err,
                      IF attempt < retries
                      THEN Append(sleeps, sleep_after(attempt))
                      ELSE sleeps)

call_model(responses, retries) ==
    call_model_loop(responses, retries, 0, "None", <<>>)

DEFAULT_RETRIES == 2

-----------------------------------------------------------------------------
(* json.loads: a text parses when, whitespace aside, it is one JSON        *)
(* document token; anything else raises JSONDecodeError.                   *)

JSON_DOCS == {"[a,b,c]", "[d,e,f]", "[a,b]", "{score}", "{ats}", "{}"}

JsonValue(tok) ==
    CASE tok = "[a,b,c]" -> PyList(<< <<"a">>, <<"b">>, <<"c">> >>)
      [] tok = "[d,e,f]" -> PyList(<< <<"d">>, <<"e">>, <<"f">> >>)
      [] tok = "[a,b]"   -> PyList(<< <<"a">>, <<"b">> >>)
      [] tok = "{score}" -> PyDict("score", 4)
      [] tok = "{ats}"   -> PyDict("ats", 4)
      [] tok = "{}"      -> PyDict("empty", 0)

json_loads(text) ==
    LET s == strip(text)
    IN  IF Len(s) = 1 /\ s[1] \in JSON_DOCS
        THEN [ok |-> TRUE, value |-> JsonValue(s[1])]
        ELSE [ok |-> FALSE, err |-> "JSONDecodeError"]

-----------------------------------------------------------------------------
(* Session State *)

STATE_DEFAULTS ==
    [model               |-> None,
     keywords            |-> None,
     keywords_confirmed  |-> FALSE,
     match_score         |-> None,
     resume_md           |-> None,
     cover_letter_md     |-> None,
     interview_md        |-> None,
     generation_complete |-> FALSE,
     company_name        |-> None,
     generated_at        |-> None,
     ats_analysis        |-> None]

-----------------------------------------------------------------------------
(* init_model: a listing is [ok |-> FALSE] when genai.list_models() raises, *)
(* else [ok |-> TRUE, names |-> sequence of model names]; a model name is a *)
(* sequence of tokens.  The code lists the models once per loop.            *)

Contains(name, sub) == \E i \in 1..Len(name) : name[i] = sub

GenerativeModel(name) == [t |-> "model", name |-> name]

FALLBACK_MODEL == <<"gemini", "1.5", "flash">>

FirstWith(names, sub) ==
    LET hits == {i \in 1..Len(names) : Contains(names[i], sub)}
    IN  IF hits = {} THEN 0 ELSE CHOOSE i \in hits : \A j \in hits : i <= j

\* init_model, except that the first name holding either word is taken
init_model_takes_first_match(listing1, listing2) ==
    IF ~listing1.ok THEN GenerativeModel(FALLBACK_MODEL)
    ELSE LET hits == {i \in 1..Len(listing1.names) :
                         Contains(listing1.names[i], "flash") \/ Contains(listing1.names[i], "pro")}
         IN  IF hits = {} THEN GenerativeModel(FALLBACK_MODEL)
             ELSE GenerativeModel(listing1.names[CHOOSE i \in hits : \A j \in hits : i <= j])

\* lines 44-55
init_model(listing1, listing2) ==
    IF ~listing1.ok THEN GenerativeModel(FALLBACK_MODEL)
    ELSE LET f == FirstWith(listing1.names, "flash")
         IN  IF f > 0 THEN GenerativeModel(listing1.names[f])
             ELSE IF ~listing2.ok THEN GenerativeModel(FALLBACK_MODEL)
             ELSE LET q == FirstWith(listing2.names, "pro")
                  IN  IF q > 0 THEN GenerativeModel(listing2.names[q])
                      ELSE GenerativeModel(FALLBACK_MODEL)

-----------------------------------------------------------------------------
(* validate_inputs: strings are sequences of characters *)

Msg(m) == [t |-> "msg", m |-> m]

\* count_words, except that every whitespace character separates two words
count_words_splits_at_every_space(s, in_word) ==
    IF s = <<>> THEN 0 ELSE 1 + Cardinality({i \in 1..Len(s) : IsSpace(s[i])})

RECURSIVE count_words(_, _)
\* len(s.split()): the number of maximal runs of non-whitespace characters
count_words(s, in_word) ==
    IF s = <<>> THEN 0
    ELSE IF IsSpace(Head(s)) THEN count_words(Tail(s), FALSE)
    ELSE (IF in_word THEN 0 ELSE 1) + count_words(Tail(s), TRUE)

MIN_JD_WORDS == 15
MIN_TITLE_CHARS == 3

\* validate_inputs, except that the title is checked before the job description
validate_inputs_title_before_jd(api_key, job_desc, target_title) ==
    IF api_key = <<>> THEN Msg("API Key is required.")
    ELSE IF target_title = <<>> \/ Len(strip(target_title)) < MIN_TITLE_CHARS
    THEN Msg("Target Job Title is required.")
    ELSE IF job_desc = <<>> \/ count_words(job_desc, FALSE) < MIN_JD_WORDS
    THEN Msg("Job Description is too short. Paste the full JD (minimum ~15 words).")
    ELSE None

\* lines 680-687
validate_inputs(api_key, job_desc, target_title) ==
    IF api_key = <<>> THEN Msg("API Key is required.")
    ELSE IF job_desc = <<>> \/ count_words(job_desc, FALSE) < MIN_JD_WORDS
    THEN Msg("Job Description is too short. Paste the full JD (minimum ~15 words).")
    ELSE IF target_title = <<>> \/ Len(strip(target_title)) < MIN_TITLE_CHARS
    THEN Msg("Target Job Title is required.")
    ELSE None

-----------------------------------------------------------------------------
(* One script run.  A run context carries the Session State and what the   *)
(* run has done so far; stop is set by st.rerun(), which ends the run.     *)

\* the widgets api_key, target_title and job_desc were not read by the run
NOT_READ == [api_key |-> <<"unread">>]

NewRun(ss) ==
    [ss           |-> ss,
     stop         |-> FALSE,
     message      |-> <<>>,     \* st.warning / st.error of the Step 1 handler
     init_model   |-> FALSE,    \* init_model was invoked
     calls        |-> <<>>,     \* the model calls issued, in order
     gen          |-> FALSE,    \* the generation pass ran
     hard_failure |-> FALSE,    \* "All sections failed to generate."
     warnings     |-> <<>>,     \* the errors list of the generation pass
     tabs         |-> <<>>,     \* the result tabs rendered
     form         |-> NOT_READ, \* the form values Step 1 or the generation pass read
     stored       |-> "no"]     \* which statement stored the keyword list

\* one model call: its prompt, model handle and keyword argument, whether it
\* returned, and the cleaned text it returned
Call(prompt, model, kws, result) ==
    [prompt |-> prompt, model |-> model, kws |-> kws, ok |-> result.ok,
     text |-> IF result.ok THEN result.text ELSE <<>>]

FAILED_TO_PARSE == <<"Failed to parse AI response. Try again.">>
AnalysisFailed(e) == <<"Analysis failed: ", e>>
TOO_FEW == "Too few keywords returned."

UNKNOWN_COMPANY == <<"Unknown", " ", "Company">>

RECURSIVE lstrip_char(_, _)
lstrip_char(s, c) == IF s /= <<>> /\ Head(s) = c THEN lstrip_char(Tail(s), c) ELSE s

RECURSIVE rstrip_char(_, _)
rstrip_char(s, c) ==
    IF s /= <<>> /\ s[Len(s)] = c THEN rstrip_char(SubSeq(s, 1, Len(s) - 1), c) ELSE s

\* str.strip(c) for a single character c
strip_char(s, c) == rstrip_char(lstrip_char(s, c), c)

\* CompanyName, except that an empty response is stored as it is
CompanyName_keeps_empty(co) ==
    IF co.ok
    THEN PyStr(strip_char(strip_char(strip(co.text), "\""), "'"))
    ELSE PyStr(UNKNOWN_COMPANY)

\* lines 986-991: the company name stored for a company call result
CompanyName(co) ==
    IF co.ok
    THEN LET company == strip_char(strip_char(strip(co.text), "\""), "'")
         IN  IF company /= <<>> THEN PyStr(company) ELSE PyStr(UNKNOWN_COMPANY)
    ELSE PyStr(UNKNOWN_COMPANY)

\* ExtractDone, except that the generated documents are kept
ExtractDone_keeps_documents(ctx, score_data) ==
    [ctx EXCEPT !.ss = [ctx.ss EXCEPT !.match_score = score_data,
                                      !.keywords_confirmed = FALSE,
                                      !.generation_complete = FALSE],
                !.stored = "extract_done",
                !.stop = TRUE]

\* lines 998-1005: the end of a successful Step 1
ExtractDone(ctx, score_data) ==
    [ctx EXCEPT !.ss = [ctx.ss EXCEPT !.match_score = score_data,
                                      !.keywords_confirmed = FALSE,
                                      !.generation_complete = FALSE,
                                      !.resume_md = None,
                                      !.cover_letter_md = None,
                                      !.interview_md = None,
                                      !.ats_analysis = None,
                                      !.generated_at = None],
                !.stored = "extract_done",
                !.stop = TRUE]

\* lines 992-997: the match score step, after keywords and company are stored
ExtractScore(ctx, scR) ==
    LET sc == call_model(scR, DEFAULT_RETRIES)
        c  == [ctx EXCEPT !.calls = Append(@, Call("match_score", ctx.ss.model, ctx.ss.keywords, sc))]
    IN  IF ~sc.ok THEN [c EXCEPT !.message = AnalysisFailed(sc.err)]
        ELSE LET sj == json_loads(sc.text)
             IN  IF ~sj.ok THEN [c EXCEPT !.message = FAILED_TO_PARSE]
                 ELSE ExtractDone(c, sj.value)

\* lines 985-991: store the keywords, then the company step
ExtractCompany(ctx, kws, coR) ==
    LET co == call_model(coR, DEFAULT_RETRIES)
    IN  [ctx EXCEPT !.ss = [ctx.ss EXCEPT !.keywords = kws,
                                          !.company_name = CompanyName(co)],
                    !.stored = "extract_aborted",
                    !.calls = Append(@, Call("company", ctx.ss.model, None, co))]

\* lines 981-984: the keyword call and its checks
ExtractKeywords(ctx, kwR, coR, scR) ==
    LET kw == call_model(kwR, DEFAULT_RETRIES)
        c  == [ctx EXCEPT !.calls = Append(@, Call("keywords", ctx.ss.model, None, kw))]
    IN  IF ~kw.ok THEN [c EXCEPT !.message = AnalysisFailed(kw.err)]
        ELSE LET kj == json_loads(kw.text)
             IN  IF ~kj.ok THEN [c EXCEPT !.message = FAILED_TO_PARSE]
                 ELSE IF kj.value.t /= "list" \/ Len(kj.value.items) < 3
                 THEN [c EXCEPT !.message = AnalysisFailed(TOO_FEW)]
                 ELSE ExtractScore(ExtractCompany(c, kj.value, coR), scR)

\* ExtractModel, except that the cached handle is ignored
ExtractModel_resolves_every_time(ctx, listing1, listing2) ==
    [ctx EXCEPT !.ss = [ctx.ss EXCEPT !.model = init_model(listing1, listing2)],
                !.init_model = TRUE]

\* lines 979-980: resolve the model unless a handle is cached
ExtractModel(ctx, listing1, listing2) ==
    IF ~Truthy(ctx.ss.model)
    THEN [ctx EXCEPT !.ss = [ctx.ss EXCEPT !.model = init_model(listing1, listing2)],
                     !.init_model = TRUE]
    ELSE ctx

\* lines 972-1009: the "Step 1: Extract JD Keywords" handler
Step1(ctx, form, listing1, listing2, kwR, coR, scR) ==
    LET err == validate_inputs(form.api_key, form.job_desc, form.target_title)
        c   == [ctx EXCEPT !.form = form]
    IN  IF Truthy(err) THEN [c EXCEPT !.message = <<err.m>>]
        ELSE ExtractKeywords(ExtractModel(c, listing1, listing2), kwR, coR, scR)

-----------------------------------------------------------------------------
(* Section 16: the editable keyword list and its two buttons *)

\* line 1016: the section is rendered
KeywordsEditable(ss) == Truthy(ss.keywords) /\ ~ss.keywords_confirmed

RECURSIVE EditedFrom(_, _)
\* lines 1023-1029: the stripped, non-blank values of the keyword fields
EditedFrom(vals, idx) ==
    IF idx > Len(vals) THEN <<>>
    ELSE (IF strip(vals[idx]) /= <<>> THEN <<strip(vals[idx])>> ELSE <<>>)
         \o EditedFrom(vals, idx + 1)

\* lines 1033-1038: "Confirm Keywords & Generate"
Step16Confirm(ctx, vals, add_kw) ==
    LET edited == EditedFrom(vals, 1)
                  \o (IF strip(add_kw) /= <<>> THEN <<strip(add_kw)>> ELSE <<>>)
    IN  [ctx EXCEPT !.ss = [ctx.ss EXCEPT !.keywords = PyList(edited),
                                          !.keywords_confirmed = TRUE],
                    !.stored = "confirm",
                    !.stop = TRUE]

\* lines 1040-1044: "Re-extract"
Step16ReExtract(ctx) ==
    [ctx EXCEPT !.ss = [ctx.ss EXCEPT !.keywords = None,
                                      !.match_score = None,
                                      !.company_name = None],
                !.stored = "cleared",
                !.stop = TRUE]

-----------------------------------------------------------------------------
(* Section 17: the generation pass *)

\* GenerationDue, except that the completion flag is not consulted
GenerationDue_ignores_completion(ss) == ss.keywords_confirmed

\* line 1051
GenerationDue(ss) == ss.keywords_confirmed /\ ~ss.generation_complete

NOW == <<"now">>

\* one try/except artifact step (lines 1059-1066, 1067-1074, 1075-1082)
ArtifactStep(ctx, field, prompt, label, kws, model, responses) ==
    LET r == call_model(responses, DEFAULT_RETRIES)
        c == [ctx EXCEPT !.calls = Append(@, Call(prompt, model, kws, r))]
    IN  IF r.ok
        THEN [c EXCEPT !.ss = [c.ss EXCEPT ![field] = PyStr(r.text)]]
        ELSE [c EXCEPT !.ss = [c.ss EXCEPT ![field] = None],
                       !.warnings = Append(@, [label |-> label, err |-> r.err])]

\* AtsStep, except that a failure is added to the errors list
AtsStep_reports_failure(ctx, kws, model, responses) ==
    IF Truthy(ctx.ss.resume_md)
    THEN LET r == call_model(responses, DEFAULT_RETRIES)
             c == [ctx EXCEPT !.calls = Append(@, Call("ats_analysis", model, kws, r))]
             j == IF r.ok THEN json_loads(r.text) ELSE [ok |-> FALSE, err |-> r.err]
         IN  IF j.ok THEN [c EXCEPT !.ss = [c.ss EXCEPT !.ats_analysis = j.value]]
             ELSE [c EXCEPT !.ss = [c.ss EXCEPT !.ats_analysis = None],
                            !.warnings = Append(@, [label |-> "ATS Analysis", err |-> j.err])]
    ELSE ctx

\* lines 1083-1089: the ATS analysis, only for a resume body that is present
AtsStep(ctx, kws, model, responses) ==
    IF Truthy(ctx.ss.resume_md)
    THEN LET r == call_model(responses, DEFAULT_RETRIES)
             c == [ctx EXCEPT !.calls = Append(@, Call("ats_analysis", model, kws, r))]
             j == IF r.ok THEN json_loads(r.text) ELSE [ok |-> FALSE, err |-> r.err]
         IN  [c EXCEPT !.ss = [c.ss EXCEPT !.ats_analysis =
                                   IF j.ok THEN j.value ELSE None]]
    ELSE ctx

\* CompletionStep, except that only the resume body counts
CompletionStep_resume_only(ctx) ==
    IF Truthy(ctx.ss.resume_md)
    THEN [ctx EXCEPT !.ss = [ctx.ss EXCEPT !.generation_complete = TRUE,
                                           !.generated_at = PyStr(NOW)],
                     !.stop = TRUE]
    ELSE [ctx EXCEPT !.hard_failure = TRUE]

\* CompletionStep, except that no timestamp is recorded
CompletionStep_no_timestamp(ctx) ==
    IF Truthy(ctx.ss.resume_md) \/ Truthy(ctx.ss.cover_letter_md)
                                \/ Truthy(ctx.ss.interview_md)
    THEN [ctx EXCEPT !.ss = [ctx.ss EXCEPT !.generation_complete = TRUE],
                     !.stop = TRUE]
    ELSE [ctx EXCEPT !.hard_failure = TRUE]

\* lines 1091-1101: the completion decision
CompletionStep(ctx) ==
    IF Truthy(ctx.ss.resume_md) \/ Truthy(ctx.ss.cover_letter_md)
                                \/ Truthy(ctx.ss.interview_md)
    THEN [ctx EXCEPT !.ss = [ctx.ss EXCEPT !.generation_complete = TRUE,
                                           !.generated_at = PyStr(NOW)],
                     !.stop = TRUE]
    ELSE [ctx EXCEPT !.hard_failure = TRUE]

\* Step17 with the three artifact steps inside one try block: the first
\* failure skips the artifacts after it
Step17_first_failure_skips_rest(ctx, form, rR, cR, iR, aR) ==
    LET model == ctx.ss.model
        kws   == ctx.ss.keywords
        c0 == [ctx EXCEPT !.gen = TRUE, !.form = form]
        c1 == ArtifactStep(c0, "resume_md", "resume", "Resume", kws, model, rR)
        c2 == IF c1.warnings /= <<>> THEN c1
              ELSE ArtifactStep(c1, "cover_letter_md", "cover_letter", "Cover Letter", kws, model, cR)
        c3 == IF c2.warnings /= <<>> THEN c2
              ELSE ArtifactStep(c2, "interview_md", "interview", "Interview Prep", kws, model, iR)
    IN  CompletionStep(AtsStep(c3, kws, model, aR))

\* lines 1051-1101
Step17(ctx, form, rR, cR, iR, aR) ==
    LET model == ctx.ss.model
        kws   == ctx.ss.keywords
        c0 == [ctx EXCEPT !.gen = TRUE, !.form = form]
        c1 == ArtifactStep(c0, "resume_md", "resume", "Resume", kws, model, rR)
        c2 == ArtifactStep(c1, "cover_letter_md", "cover_letter", "Cover Letter", kws, model, cR)
        c3 == ArtifactStep(c2, "interview_md", "interview", "Interview Prep", kws, model, iR)
    IN  CompletionStep(AtsStep(c3, kws, model, aR))

-----------------------------------------------------------------------------
(* Section 18: the results *)

\* lines 1131-1141
AvailableTabs(ss) ==
    (IF Truthy(ss.resume_md) THEN <<"Resume">> ELSE <<>>)
    \o (IF Truthy(ss.cover_letter_md) THEN <<"Cover Letter">> ELSE <<>>)
    \o (IF Truthy(ss.interview_md) THEN <<"Interview Prep">> ELSE <<>>)

\* lines 1108-1189, without a click on Start Over
Step18(ctx) ==
    IF ~ctx.stop /\ ctx.ss.generation_complete
    THEN [ctx EXCEPT !.tabs = AvailableTabs(ctx.ss)]
    ELSE ctx

\* ResetState with "ats_analysis" missing from the keys that are reset
ResetState_keeps_ats(ss) ==
    [k \in DOMAIN ss |-> IF k \in DOMAIN STATE_DEFAULTS \ {"ats_analysis"}
                         THEN STATE_DEFAULTS[k] ELSE ss[k]]

\* ResetState with "model" missing from the keys that are reset
ResetState_keeps_model(ss) ==
    [k \in DOMAIN ss |-> IF k \in DOMAIN STATE_DEFAULTS \ {"model"}
                         THEN STATE_DEFAULTS[k] ELSE ss[k]]

\* lines 1194-1195: every STATE_DEFAULTS key is set to its default
ResetState(ss) ==
    [k \in DOMAIN ss |-> IF k \in DOMAIN STATE_DEFAULTS THEN STATE_DEFAULTS[k] ELSE ss[k]]

\* lines 1193-1196: "Start Over"
Step18StartOver(ctx) ==
    [Step18(ctx) EXCEPT !.ss = ResetState(ctx.ss), !.stored = "cleared", !.stop = TRUE]

-----------------------------------------------------------------------------
(* What the environment can supply: service responses, model listings,     *)
(* form values and keyword edits.                                          *)

Err(e) == [ok |-> FALSE, err |-> e]
Ok(text) == [ok |-> TRUE, text |-> text]

AllFail == <<Err("e1"), Err("e2"), Err("e3")>>
AtOnce(text) == <<Ok(text), Ok(text), Ok(text)>>
AtThird(text) == <<Err("e1"), Err("e2"), Ok(text)>>

\* a response whose text is empty once cleaned
BLANK_TEXT == <<FENCE, "\n", FENCE>>

KeywordResponses ==
    {AllFail,
     AtThird(<<FENCE, "json", "\n", "[a,b,c]", "\n", FENCE>>),
     AtOnce(<<"[a,b]">>),
     AtOnce(<<"{score}">>),
     AtOnce(<<"S", "u", "r", "e", ":", " ", "[a,b,c]">>)}

CompanyResponses ==
    {AllFail, AtOnce(<<"\"", "A", "&", "C", "\"">>), AtOnce(<<"'", "'">>), AtOnce(BLANK_TEXT)}

ScoreResponses ==
    {AllFail, AtOnce(<<FENCE, "\n", "{score}", "\n", FENCE>>), AtOnce(<<"n", "/", "a">>)}

\* (an empty body is followed for the resume, the artifact the ATS step depends on)
ResumeResponses == {AllFail, AtOnce(<<"#", " ", "T">>), AtOnce(BLANK_TEXT)}

CoverLetterResponses == {AllFail, AtThird(<<"D", "e", "a", "r">>)}

InterviewResponses == {AllFail, AtOnce(<<"Q", "1">>)}

AtsResponses ==
    {AllFail, AtOnce(<<"{ats}">>), AtOnce(<<"n", "/", "a">>)}

Listings ==
    {<<[ok |-> TRUE, names |-> << <<"gemini", "pro">>, <<"gemini", "2", "flash">> >>],
       [ok |-> TRUE, names |-> << <<"gemini", "pro">>, <<"gemini", "2", "flash">> >>]>>}

RECURSIVE Words(_)
\* a text of n one-letter words separated by single spaces
Words(n) == IF n = 0 THEN <<>>
            ELSE IF n = 1 THEN <<"w">> ELSE <<"w", " ">> \o Words(n - 1)

Forms ==
    {[api_key |-> <<"k">>, job_desc |-> Words(15), target_title |-> <<"B", "u", "y">>],
     [api_key |-> <<"k">>, job_desc |-> Words(14), target_title |-> <<"B", "u", "y">>]}

\* what the user can leave in the keyword fields and the add field: every
\* keyword as extracted, the first one blanked, the first one renamed, all of
\* them blanked, or a keyword added
ConfirmInputs(kws) ==
    {[vals |-> [i \in 1..Len(kws) |-> kws[i]], add_kw |-> <<>>],
     [vals |-> [i \in 1..Len(kws) |-> IF i = 1 THEN <<" ">> ELSE kws[i]], add_kw |-> <<" ">>],
     [vals |-> [i \in 1..Len(kws) |-> IF i = 1 THEN <<" ", "x", " ">> ELSE kws[i]], add_kw |-> <<>>],
     [vals |-> [i \in 1..Len(kws) |-> <<>>], add_kw |-> <<>>],
     [vals |-> [i \in 1..Len(kws) |-> kws[i]], add_kw |-> <<"n", " ">>]}

-----------------------------------------------------------------------------
(* The script runs *)

\* the end of a run: Session State persists, the rest is what the run did
Commit(ctx, button) ==
    /\ session_state' = ctx.ss
    /\ rerun_requested' = ctx.stop
    /\ run' = [button       |-> button,
               message      |-> ctx.message,
               init_model   |-> ctx.init_model,
               calls        |-> ctx.calls,
               gen          |-> ctx.gen,
               hard_failure |-> ctx.hard_failure,
               warnings     |-> ctx.warnings,
               tabs         |-> ctx.tabs,
               form         |-> ctx.form]
    /\ init_calls' = IF ctx.init_model THEN init_calls + 1 ELSE init_calls
    /\ passes' = IF ctx.stored = "confirm" THEN <<>>
                 ELSE IF ctx.gen THEN Append(passes, ctx.ss.generation_complete)
                 ELSE passes
    /\ kw_from' = CASE ctx.stored = "no" -> kw_from
                    [] ctx.stored = "cleared" -> "none"
                    [] ctx.stored = "confirm" ->
                         IF kw_from = "extract_done" THEN "confirm_after_done"
                         ELSE "confirm_after_aborted"
                    [] OTHER -> ctx.stored
    /\ UNCHANGED <<cm_in, cm_out, fn_in, fn_out>>

\* sections 17 and 18 of a run in which no button of sections 16 and 18 was clicked
\* (forms: the form values the run may hold)
RestOfScript(ctx, button, forms) ==
    IF ~ctx.stop /\ GenerationDue(ctx.ss)
    THEN /\ Len(passes) < MaxGenPasses
         /\ \E form \in forms :
            \E rR \in ResumeResponses, cR \in CoverLetterResponses, iR \in InterviewResponses :
               \E aR \in (IF Truthy(ArtifactStep(ctx, "resume_md", "resume", "Resume",
                                                 None, None, rR).ss.resume_md)
                          THEN AtsResponses ELSE {AllFail}) :
                  Commit(Step18(Step17(ctx, form, rR, cR, iR, aR)), button)
    ELSE Commit(Step18(ctx), button)

\* the keyword response passes the checks of lines 982-984
KeywordsUsable(kwR) ==
    LET c == ExtractKeywords(NewRun(STATE_DEFAULTS), kwR, AllFail, AllFail)
    IN  c.stored /= "no"

\* a click on "Step 1: Extract JD Keywords"
Extract ==
    /\ ~rerun_requested
    /\ ~Truthy(session_state.model) => init_calls < MaxInitCalls
    /\ \E form \in Forms :
          IF Truthy(validate_inputs(form.api_key, form.job_desc, form.target_title))
          THEN RestOfScript(Step1(NewRun(session_state), form, <<>>, <<>>, <<>>, <<>>, <<>>),
                            "extract", {form})
          ELSE \E ls \in Listings, kwR \in KeywordResponses :
                  LET l1 == ls[1]
                      l2 == ls[2]
                  IN  IF KeywordsUsable(kwR)
                      THEN \E coR \in CompanyResponses, scR \in ScoreResponses :
                              RestOfScript(Step1(NewRun(session_state), form, l1, l2,
                                                 kwR, coR, scR), "extract", {form})
                      ELSE RestOfScript(Step1(NewRun(session_state), form, l1, l2,
                                              kwR, <<>>, <<>>), "extract", {form})

\* a click on "Confirm Keywords & Generate"
Confirm ==
    /\ ~rerun_requested
    /\ KeywordsEditable(session_state)
    /\ \E e \in ConfirmInputs(session_state.keywords.items) :
          Commit(Step16Confirm(NewRun(session_state), e.vals, e.add_kw), "confirm")

\* a click on "Re-extract"
ReExtract ==
    /\ ~rerun_requested
    /\ KeywordsEditable(session_state)
    /\ Commit(Step16ReExtract(NewRun(session_state)), "re_extract")

\* a click on "Start Over"
StartOver ==
    /\ ~rerun_requested
    /\ session_state.generation_complete
    /\ Commit(Step18StartOver(NewRun(session_state)), "start_over")

\* any other interaction (a field edit, a download): the script runs with no button set
Interact ==
    /\ ~rerun_requested
    /\ RestOfScript(NewRun(session_state), "interact", Forms)

\* the run that st.rerun() starts
Rerun ==
    /\ rerun_requested
    /\ RestOfScript(NewRun(session_state), "rerun", Forms)

FirstLoad ==
    [button |-> "load", message |-> <<>>, init_model |-> FALSE, calls |-> <<>>,
     gen |-> FALSE, hard_failure |-> FALSE, warnings |-> <<>>, tabs |-> <<>>,
     form |-> NOT_READ]

IDLE == [responses |-> <<>>, retries |-> 0]
NO_ARGS == [f |-> "none"]
NOT_APPLIED == [done |-> FALSE]
Applied(v) == [done |-> TRUE, value |-> v]
PENDING == [ok |-> FALSE, err |-> "pending", attempts |-> 0, sleeps |-> <<>>]

Init ==
    /\ session_state = STATE_DEFAULTS
    /\ rerun_requested = FALSE
    /\ run = FirstLoad
    /\ init_calls = 0
    /\ passes = <<>>
    /\ kw_from = "none"
    /\ cm_in = IDLE
    /\ cm_out = PENDING
    /\ fn_in = NO_ARGS
    /\ fn_out = NOT_APPLIED

Next == Extract \/ Confirm \/ ReExtract \/ StartOver \/ Interact \/ Rerun

Spec == Init /\ [][Next]_vars

-----------------------------------------------------------------------------
(* call_model on its own: the arguments are drawn in the initial state and *)
(* the one action applies the function.                                    *)

AttemptOutcomes ==
    {Err("eA"), Err("eB"), Ok(<<"x">>),
     Ok(<<" ", FENCE, "json", "\n", "x", "y", "\n", FENCE, "\n">>)}

CallInputs ==
    {[responses |-> r, retries |-> n] :
        n \in 0..MaxRetries, r \in [1..(MaxRetries + 1) -> AttemptOutcomes]}

InitCall ==
    /\ session_state = STATE_DEFAULTS
    /\ rerun_requested = FALSE
    /\ run = FirstLoad
    /\ init_calls = 0
    /\ passes = <<>>
    /\ kw_from = "none"
    /\ cm_in \in CallInputs
    /\ cm_out = PENDING
    /\ fn_in = NO_ARGS
    /\ fn_out = NOT_APPLIED

CallModel ==
    /\ cm_out = PENDING
    /\ cm_out' = call_model(cm_in.responses, cm_in.retries)
    /\ UNCHANGED <<session_state, rerun_requested, run, init_calls, passes, kw_from, cm_in,
                   fn_in, fn_out>>

NextCall == CallModel

SpecCall == InitCall /\ [][NextCall]_vars

\* the call under test has returned or raised
Returned == cm_out.attempts > 0

\* the zero-based index of the first attempt that succeeds, or -1
FirstSuccess ==
    LET S == {k \in 0..cm_in.retries : cm_in.responses[k + 1].ok}
    IN  IF S = {} THEN -1 ELSE CHOOSE k \in S : \A j \in S : k <= j

\* C8: call_model with retry count r makes at most r+1 attempts; if attempt k
\* is the first to succeed it returns that attempt's cleaned text after exactly
\* k sleeps of 1.5*(j+1) seconds (j < k) and makes no further attempt; if all
\* r+1 attempts fail it raises the error of the final attempt.
C8_RetryContract ==
    Returned =>
        LET k == FirstSuccess
            r == cm_in.retries
        IN  /\ cm_out.attempts <= r + 1
            /\ k >= 0 => /\ cm_out.ok
                         /\ cm_out.text = clean_text(cm_in.responses[k + 1].text)
                         /\ cm_out.attempts = k + 1
                         /\ cm_out.sleeps = [j \in 1..k |-> 15 * j]
            /\ k < 0  => /\ ~cm_out.ok
                         /\ cm_out.err = cm_in.responses[r + 1].err
                         /\ cm_out.attempts = r + 1

\* two failures, then success on the third attempt with retries = 2, where an
\* earlier error differs from the later one
C8_Witness ==
    /\ Returned
    /\ cm_in.retries = 2
    /\ cm_in.responses[1] = Err("eA")
    /\ cm_in.responses[2] = Err("eB")
    /\ cm_out.ok
    /\ cm_out.text = <<"x", "y">>
    /\ cm_out.sleeps = <<15, 30>>

\* the default budget is exhausted: every attempt of a retries=2 call failed
BudgetExhausted ==
    /\ Returned
    /\ cm_in.retries = DEFAULT_RETRIES
    /\ FirstSuccess < 0

\* C9 as stated: a call that fails on every attempt of its 3-attempt budget
\* waits three times, 1.5s, 3.0s and 4.5s, before control returns.
C9_ThreeWaits ==
    BudgetExhausted => cm_out.attempts = 3 /\ cm_out.sleeps = <<15, 30, 45>>

\* C9 amended: a call that fails on every attempt of its 3-attempt budget
\* waits twice, 1.5s then 3.0s, and raises right after the third attempt.
C9_TwoWaits ==
    BudgetExhausted => cm_out.attempts = 3 /\ ~cm_out.ok /\ cm_out.sleeps = <<15, 30>>

C9_Witness ==
    /\ BudgetExhausted
    /\ cm_in.responses[3] = Err("eB")
    /\ cm_out.err = "eB"

-----------------------------------------------------------------------------
(* Properties of the workflow controller *)

\* the last run made a model call for this prompt, and what came of it
CallsFor(r, prompt) == SelectSeq(r.calls, LAMBDA c : c.prompt = prompt)
Issued(r, prompt) == CallsFor(r, prompt) /= <<>>
CallOk(r, prompt) == Issued(r, prompt) /\ CallsFor(r, prompt)[1].ok
CallRaised(r, prompt) == Issued(r, prompt) /\ ~CallsFor(r, prompt)[1].ok

\* the Step 1 handler passed validation and then aborted with an inline error
ExtractAborted(r) ==
    /\ r.button = "extract"
    /\ Issued(r, "keywords")
    /\ r.message /= <<>>

\* C1: an Extract action that fails at a required step leaves the keyword
\* list, company name, match score, keyword-confirmed flag and all generation
\* fields as they were before the action.
C1_AbortedExtractKeepsState ==
    [][(ExtractAborted(run') /\ ~run'.gen) =>
          \A k \in DOMAIN STATE_DEFAULTS \ {"model"} :
              session_state'[k] = session_state[k]]_vars

\* the confirmed list holds at least 3 keywords and was confirmed after an
\* Extract that completed every step
CleanlyConfirmed ==
    /\ kw_from = "confirm_after_done"
    /\ session_state.keywords.t = "list"
    /\ Len(session_state.keywords.items) >= 3

\* C2 as stated: between one Confirm and the next successful Extract or Start
\* Over the generation pass runs in at most one script run, a pass in which
\* all three artifacts fail included (stated for cleanly confirmed lists).
C2_OnePassPerConfirm == CleanlyConfirmed => Len(passes) <= 1

\* C2 amended: after a Confirm, no generation pass runs once a pass has set
\* generation-complete; only passes that produced no artifact are followed by
\* another pass.
C2_NoPassAfterCompletion ==
    \A i \in 1..Len(passes) : passes[i] => i = Len(passes)

\* a pass failed, the retry completed, and a later re-render ran no pass
C2_Witness ==
    /\ passes = <<FALSE, TRUE>>
    /\ run.button = "interact"
    /\ ~run.gen
    /\ session_state.generation_complete

ARTIFACTS ==
    <<[field |-> "resume_md",       prompt |-> "resume",       label |-> "Resume"],
      [field |-> "cover_letter_md", prompt |-> "cover_letter", label |-> "Cover Letter"],
      [field |-> "interview_md",    prompt |-> "interview",    label |-> "Interview Prep"]>>

ArtifactPrompts == {ARTIFACTS[i].prompt : i \in 1..3}

\* the prompts of the artifact calls of the last run, in the order issued
ArtifactCalls(r) ==
    LET cs == SelectSeq(r.calls, LAMBDA c : c.prompt \in ArtifactPrompts)
    IN  [i \in 1..Len(cs) |-> cs[i].prompt]

\* the labels of the artifacts that satisfy P, in the order of ARTIFACTS
LabelsWhere(P(_)) ==
    LET pick == SelectSeq(ARTIFACTS, P)
    IN  [i \in 1..Len(pick) |-> pick[i].label]

WarningLabels(r) == [i \in 1..Len(r.warnings) |-> r.warnings[i].label]

AttemptedOnceEach(r) == ArtifactCalls(r) = <<"resume", "cover_letter", "interview">>

\* C3 as stated: each artifact is attempted exactly once; when some but not
\* all artifact calls fail the session reaches Complete, the tabs are exactly
\* the artifacts whose call succeeded, and there is one warning per failed
\* artifact, labelled with its name (stated for cleanly confirmed lists).
C3_PartialFailure ==
    (run.gen /\ CleanlyConfirmed) =>
        /\ AttemptedOnceEach(run)
        /\ (\E i \in 1..3 : CallRaised(run, ARTIFACTS[i].prompt))
           /\ (\E i \in 1..3 : CallOk(run, ARTIFACTS[i].prompt))
           => /\ session_state.generation_complete
              /\ AvailableTabs(session_state) = LabelsWhere(LAMBDA a : CallOk(run, a.prompt))
              /\ WarningLabels(run) = LabelsWhere(LAMBDA a : CallRaised(run, a.prompt))

\* the call for artifact a returned a body that is not empty
ProducedBody(a) ==
    /\ CallOk(run, a.prompt)
    /\ session_state[a.field].t = "str"
    /\ session_state[a.field].s /= <<>>

\* C3 amended: each artifact is attempted exactly once whatever the earlier
\* ones did; there is exactly one warning per artifact whose call raised,
\* labelled with its name, and that artifact's body is absent; the tabs are
\* exactly the artifacts whose call returned a non-empty body; the session
\* reaches Complete exactly when there is at least one tab.
C3_FaultIsolation ==
    run.gen =>
        /\ AttemptedOnceEach(run)
        /\ WarningLabels(run) = LabelsWhere(LAMBDA a : CallRaised(run, a.prompt))
        /\ \A i \in 1..3 : CallRaised(run, ARTIFACTS[i].prompt)
                              => session_state[ARTIFACTS[i].field] = None
        /\ AvailableTabs(session_state) = LabelsWhere(ProducedBody)
        /\ session_state.generation_complete <=> AvailableTabs(session_state) /= <<>>

\* the cover letter call fails alone: two tabs, one warning naming it
C3_Witness ==
    /\ run.gen
    /\ session_state.generation_complete
    /\ AvailableTabs(session_state) = <<"Resume", "Interview Prep">>
    /\ run.warnings = <<[label |-> "Cover Letter", err |-> "e3"]>>

\* C4 as stated: a pass sets generation-complete and the timestamp if and
\* only if at least one artifact call succeeded, and reports the hard failure
\* only when all three artifact calls failed (stated for cleanly confirmed
\* lists).
C4_CompleteIffCallSucceeded ==
    (run.gen /\ CleanlyConfirmed) =>
        LET some == \E i \in 1..3 : CallOk(run, ARTIFACTS[i].prompt)
        IN  /\ session_state.generation_complete <=> some
            /\ session_state.generated_at /= None <=> some
            /\ run.hard_failure => ~some

\* C4 amended: a pass sets generation-complete and the timestamp if and only
\* if at least one artifact call returned a non-empty body; otherwise it
\* reports the hard failure and the session stays in KeywordsConfirmed.
C4_CompleteIffBody ==
    run.gen =>
        LET some == \E i \in 1..3 : ProducedBody(ARTIFACTS[i])
        IN  /\ session_state.generation_complete <=> some
            /\ session_state.generated_at /= None <=> some
            /\ run.hard_failure <=> ~some
            /\ run.hard_failure => /\ session_state.keywords_confirmed
                                   /\ ~session_state.generation_complete
                                   /\ ~rerun_requested

\* a pass that completes with a timestamp although one artifact call failed
C4_Witness ==
    /\ run.gen
    /\ session_state.generation_complete
    /\ session_state.generated_at = PyStr(NOW)
    /\ CallRaised(run, "resume")
    /\ ~run.hard_failure

\* C5: whenever the keyword-confirmed flag is set, the stored keyword list
\* has at least 3 entries (stated for lists confirmed after an Extract that
\* completed every step).
C5_ConfirmedListAtLeastThree ==
    (session_state.keywords_confirmed /\ kw_from = "confirm_after_done") =>
        /\ session_state.keywords.t = "list"
        /\ Len(session_state.keywords.items) >= 3

\* C6: whenever the keyword-confirmed flag is set, the keyword list is present
\* and is a list the user confirmed after an Extract that completed every
\* required step.
C6_ConfirmedAfterSuccessfulExtract ==
    session_state.keywords_confirmed =>
        /\ session_state.keywords /= None
        /\ kw_from = "confirm_after_done"

\* C7: after Start Over every Session State field has its default, so the
\* state equals the one created on first page load.
C7_StartOverResets ==
    run.button = "start_over" =>
        /\ session_state = STATE_DEFAULTS
        /\ \A k \in DOMAIN session_state : session_state[k] = STATE_DEFAULTS[k]

\* Start Over clicked in a Complete state that held a model handle and bodies
C7_Witness ==
    /\ run.button = "start_over"
    /\ init_calls >= 1
    /\ passes /= <<>>
    /\ passes[Len(passes)]

\* C10 as stated: init_model is invoked at most once per session.
C10_InitOncePerSession == init_calls <= 1

\* C10 amended: init_model is invoked only by a run that finds no handle in
\* Session State, and it caches one; a cached handle is dropped only by Start
\* Over; every model call of a run uses the handle cached in Session State.
C10_InitOnlyWhenUncached ==
    [][/\ init_calls' /= init_calls =>
             /\ ~Truthy(session_state.model)
             /\ Truthy(session_state'.model)
             /\ init_calls' = init_calls + 1
             /\ run'.button = "extract"
       /\ (Truthy(session_state.model) /\ session_state'.model /= session_state.model)
             => (run'.button = "start_over" /\ session_state'.model = None)
       /\ \A i \in 1..Len(run'.calls) : run'.calls[i].model = session_state'.model
             /\ Truthy(run'.calls[i].model)]_vars

\* a later Extract reuses the cached handle without resolving the model again
C10_Witness ==
    /\ run.button = "extract"
    /\ ~run.init_model
    /\ Issued(run, "match_score")
    /\ init_calls = 1

-----------------------------------------------------------------------------
(* Input validation before the model calls *)

\* validate_inputs accepts the form values the run read
FormValid(r) ==
    /\ r.form /= NOT_READ
    /\ validate_inputs(r.form.api_key, r.form.job_desc, r.form.target_title) = None

\* C11: the keyword, company and match-score calls of Extract, the artifact
\* calls of the generation pass and the ATS call are issued only in a script
\* run whose current form values (credential, job description, target title)
\* pass Input Validation: a run whose form values fail validation issues no
\* model call, also when the fields were changed after the extraction and
\* before Confirm (stated for generation passes over cleanly confirmed lists).
C11_NoCallWithInvalidForm ==
    (run.calls /= <<>> /\ (run.gen => CleanlyConfirmed)) => FormValid(run)

-----------------------------------------------------------------------------
(* Malformed responses of the Step 1 handler *)

\* the text returned by the call the run issued for a prompt
TextOf(r, prompt) == CallsFor(r, prompt)[1].text

\* the keyword call returned text that is not JSON, not an array, or an array
\* of fewer than 3 elements
KeywordsMalformed(r) ==
    /\ r.button = "extract"
    /\ CallOk(r, "keywords")
    /\ LET j == json_loads(TextOf(r, "keywords"))
       IN  \/ ~j.ok
           \/ j.value.t /= "list"
           \/ Len(j.value.items) < 3

\* the match-score call returned text that is not JSON
ScoreMalformed(r) ==
    /\ r.button = "extract"
    /\ CallOk(r, "match_score")
    /\ ~json_loads(TextOf(r, "match_score")).ok

\* C12: a malformed keyword response (text that is not JSON, JSON that is not
\* an array, or an array of fewer than 3 elements) and a malformed match-score
\* response are shown with the "failed to parse" message, never with the
\* generic "Analysis failed: ..." message, and leave Session State as it was
\* before the action.
C12_MalformedIsParseFailure ==
    [][((KeywordsMalformed(run') \/ ScoreMalformed(run')) /\ ~run'.gen) =>
          /\ run'.message = FAILED_TO_PARSE
          /\ \A k \in DOMAIN STATE_DEFAULTS \ {"model"} :
                session_state'[k] = session_state[k]]_vars

-----------------------------------------------------------------------------
(* validate_inputs on its own: the arguments are drawn in the initial      *)
(* state and the one action applies the function.                          *)

MaxTitleLen == 4     \* longest target title given to validate_inputs under test
MaxJdWords == 16     \* most words of a job description given to validate_inputs

\* every string of at most n characters over an alphabet
Strings(alphabet, n) == UNION {[1..k -> alphabet] : k \in 0..n}

RECURSIVE Spaced(_)
\* a text of n one-letter words, each between a newline and two spaces
Spaced(n) == IF n = 0 THEN <<"\n">> ELSE <<"\n", "w", " ", " ">> \o Spaced(n - 1)

ValidateInputs ==
    {[f |-> "validate_inputs", api_key |-> k, job_desc |-> jd, target_title |-> t] :
        k \in {<<>>, <<"k">>},
        jd \in {Words(n) : n \in {0, 1} \cup ((MIN_JD_WORDS - 2)..MaxJdWords)}
               \cup {Spaced(n) : n \in {0, MIN_JD_WORDS - 1, MIN_JD_WORDS}},
        t \in Strings({"B", " "}, MaxTitleLen)}

InitValidate ==
    /\ session_state = STATE_DEFAULTS
    /\ rerun_requested = FALSE
    /\ run = FirstLoad
    /\ init_calls = 0
    /\ passes = <<>>
    /\ kw_from = "none"
    /\ cm_in = IDLE
    /\ cm_out = PENDING
    /\ fn_in \in ValidateInputs
    /\ fn_out = NOT_APPLIED

Validate ==
    /\ fn_out = NOT_APPLIED
    /\ fn_out' = Applied(validate_inputs(fn_in.api_key, fn_in.job_desc, fn_in.target_title))
    /\ UNCHANGED <<session_state, rerun_requested, run, init_calls, passes, kw_from,
                   cm_in, cm_out, fn_in>>

NextValidate == Validate

SpecValidate == InitValidate /\ [][NextValidate]_vars

\* the number of whitespace-delimited words: the positions where a word starts
NumWords(s) ==
    Cardinality({i \in 1..Len(s) : ~IsSpace(s[i]) /\ (i = 1 \/ IsSpace(s[i - 1]))})

\* the length of a string without its leading and trailing whitespace
TrimmedLen(s) ==
    LET P == {i \in 1..Len(s) : ~IsSpace(s[i])}
    IN  IF P = {} THEN 0
        ELSE (CHOOSE i \in P : \A j \in P : j <= i) - (CHOOSE i \in P : \A j \in P : i <= j) + 1

TOO_SHORT == Msg("Job Description is too short. Paste the full JD (minimum ~15 words).")
TITLE_REQUIRED == Msg("Target Job Title is required.")
KEY_REQUIRED == Msg("API Key is required.")

\* C13 as stated: for any job description of at least 15 whitespace-delimited
\* words and any title of at least 3 characters validate_inputs returns no
\* error; for a 14-word description it returns the "too short" message; for an
\* empty title with a valid description it returns the "required" title
\* message (stated for a credential that is present).
C13_LongEnoughIsValid ==
    (fn_out.done /\ fn_in.api_key /= <<>>) =>
        /\ (NumWords(fn_in.job_desc) >= 15 /\ Len(fn_in.target_title) >= 3)
              => fn_out.value = None
        /\ NumWords(fn_in.job_desc) = 14 => fn_out.value = TOO_SHORT
        /\ (NumWords(fn_in.job_desc) >= 15 /\ fn_in.target_title = <<>>)
              => fn_out.value = TITLE_REQUIRED

\* C13: given a credential, for any job description of at least 15
\* whitespace-delimited words and any title of at least 3 characters after its
\* leading and trailing whitespace is removed, validate_inputs returns no
\* error; a title shorter than that, the empty title included, gets the
\* "required" title message; a 14-word description gets the "too short"
\* message.
C13_LongEnoughTrimmedIsValid ==
    (fn_out.done /\ fn_in.api_key /= <<>>) =>
        /\ (NumWords(fn_in.job_desc) >= 15 /\ TrimmedLen(fn_in.target_title) >= 3)
              => fn_out.value = None
        /\ (NumWords(fn_in.job_desc) >= 15 /\ TrimmedLen(fn_in.target_title) < 3)
              => fn_out.value = TITLE_REQUIRED
        /\ NumWords(fn_in.job_desc) = 14 => fn_out.value = TOO_SHORT

\* a 15-word description between extra whitespace, with a title that is 3
\* characters long only after trimming, was accepted
C13_Witness ==
    /\ fn_out.done
    /\ fn_in.api_key /= <<>>
    /\ NumWords(fn_in.job_desc) = 15
    /\ Len(fn_in.job_desc) > 29
    /\ TrimmedLen(fn_in.target_title) = 3
    /\ Len(fn_in.target_title) = 4
    /\ fn_out.value = None

\* C14: validate_inputs returns either no error or exactly one message, the
\* message of the first failing check in the order credential missing, job
\* description under 15 words, title absent or under 3 trimmed characters; it
\* returns no error exactly when all three checks pass, and it changes no
\* state.
C14_FirstFailingCheck ==
    [][fn_out'.done =>
          /\ fn_out'.value =
                IF fn_in.api_key = <<>> THEN KEY_REQUIRED
                ELSE IF NumWords(fn_in.job_desc) < 15 THEN TOO_SHORT
                ELSE IF TrimmedLen(fn_in.target_title) < 3 THEN TITLE_REQUIRED
                ELSE None
          /\ session_state' = session_state
          /\ fn_in' = fn_in]_vars

\* a call with two failing checks returned the message of the first one
C14_Witness ==
    /\ fn_out.done
    /\ fn_in.api_key /= <<>>
    /\ NumWords(fn_in.job_desc) < 15
    /\ TrimmedLen(fn_in.target_title) < 3
    /\ fn_out.value = TOO_SHORT

-----------------------------------------------------------------------------
(* The best-effort steps: ATS analysis and company extraction *)

\* the call of the run for a prompt raised, or returned text that is not JSON
CallOrParseFailed(r, prompt) ==
    \/ CallRaised(r, prompt)
    \/ CallOk(r, prompt) /\ ~json_loads(TextOf(r, prompt)).ok

\* C15: in a generation pass the ATS analysis call is attempted exactly when
\* the resume body produced in that pass is present (not empty), once, and
\* only after the three artifact steps; an ATS call or parse failure leaves
\* the ATS result absent, adds no entry to the warning list, and does not
\* change whether the pass reaches Complete.
C15_AtsBestEffort ==
    run.gen =>
        /\ Issued(run, "ats_analysis") <=> ProducedBody(ARTIFACTS[1])
        /\ Issued(run, "ats_analysis") =>
              /\ Len(CallsFor(run, "ats_analysis")) = 1
              /\ run.calls[Len(run.calls)].prompt = "ats_analysis"
              /\ AttemptedOnceEach(run)
        /\ CallOrParseFailed(run, "ats_analysis") => session_state.ats_analysis = None
        /\ Len(run.warnings) = Cardinality({i \in 1..3 : CallRaised(run, ARTIFACTS[i].prompt)})
        /\ \A i \in 1..Len(run.warnings) :
              run.warnings[i].label \in {ARTIFACTS[k].label : k \in 1..3}
        /\ session_state.generation_complete <=> \E i \in 1..3 : ProducedBody(ARTIFACTS[i])

\* the ATS call raised after a resume was produced: Complete, no warning
C15_Witness ==
    /\ run.gen
    /\ CallRaised(run, "ats_analysis")
    /\ session_state.ats_analysis = None
    /\ run.warnings = <<>>
    /\ session_state.generation_complete

\* a company response with no name in it: empty, or nothing but quote characters
EmptyCompany(text) ==
    \/ \A i \in 1..Len(text) : text[i] = "\""
    \/ \A i \in 1..Len(text) : text[i] = "'"

\* the Step 1 handler of the run reached st.rerun()
ExtractSucceeded(r) ==
    /\ r.button = "extract"
    /\ Issued(r, "match_score")
    /\ r.message = <<>>

\* C16: within an Extract action, a failure of the company call (after its
\* retries) or an empty company response sets the company name to "Unknown
\* Company" and does not abort the action: the match-score step still runs,
\* and after every successful Extract the company name is a non-empty string.
C16_CompanyBestEffort ==
    /\ (run.button = "extract" /\ Issued(run, "company")) =>
          /\ Issued(run, "match_score")
          /\ (\/ CallRaised(run, "company")
              \/ CallOk(run, "company") /\ EmptyCompany(TextOf(run, "company")))
             => session_state.company_name = PyStr(UNKNOWN_COMPANY)
    /\ ExtractSucceeded(run) =>
          /\ Issued(run, "company")
          /\ session_state.company_name.t = "str"
          /\ session_state.company_name.s /= <<>>

\* the company call returned an empty text and the Extract still succeeded
C16_Witness ==
    /\ ExtractSucceeded(run)
    /\ rerun_requested
    /\ CallOk(run, "company")
    /\ TextOf(run, "company") = <<>>
    /\ session_state.company_name = PyStr(UNKNOWN_COMPANY)
    /\ session_state.match_score /= None

-----------------------------------------------------------------------------
(* The state a successful Extract leaves *)

\* C17: a successful Extract action, from any reachable state (Init,
\* KeywordsExtracted, KeywordsConfirmed or Complete), leaves the session in
\* KeywordsExtracted: the keyword list and the match score are the ones this
\* action's calls returned, keyword-confirmed and generation-complete are
\* false, and resume, cover letter, interview prep, ATS result and timestamp
\* are all absent.
C17_ExtractLeavesKeywordsExtracted ==
    ExtractSucceeded(run) =>
        /\ session_state.keywords = json_loads(TextOf(run, "keywords")).value
        /\ session_state.keywords.t = "list"
        /\ session_state.match_score = json_loads(TextOf(run, "match_score")).value
        /\ ~session_state.keywords_confirmed
        /\ ~session_state.generation_complete
        /\ \A k \in {"resume_md", "cover_letter_md", "interview_md",
                     "ats_analysis", "generated_at"} : session_state[k] = None
        /\ ~run.gen
        /\ KeywordsEditable(session_state)

\* an Extract succeeded in a session whose last generation pass had completed
\* and whose model handle was still cached
C17_Witness ==
    /\ ExtractSucceeded(run)
    /\ ~run.init_model
    /\ passes /= <<>>
    /\ passes[Len(passes)]
    /\ session_state.resume_md = None

-----------------------------------------------------------------------------
(* init_model on its own: the listings are drawn in the initial state and  *)
(* the one action applies the function.                                    *)

MaxModels == 3       \* most models in a listing given to init_model under test

ModelNames ==
    {<<"gemini", "pro">>, <<"gemini", "2", "flash">>, <<"gemini", "flash", "8b">>,
     <<"embedding">>, <<"gemini", "pro", "vision">>}

LISTING_FAILS == [ok |-> FALSE]

\* the two list_models() calls see the same models, unless the second fails
InitModelInputs ==
    {[f |-> "init_model", listing1 |-> LISTING_FAILS, listing2 |-> LISTING_FAILS]}
    \cup {[f |-> "init_model", listing1 |-> [ok |-> TRUE, names |-> ns],
            listing2 |-> IF again THEN [ok |-> TRUE, names |-> ns] ELSE LISTING_FAILS] :
             ns \in Strings(ModelNames, MaxModels), again \in BOOLEAN}

InitInitModel ==
    /\ session_state = STATE_DEFAULTS
    /\ rerun_requested = FALSE
    /\ run = FirstLoad
    /\ init_calls = 0
    /\ passes = <<>>
    /\ kw_from = "none"
    /\ cm_in = IDLE
    /\ cm_out = PENDING
    /\ fn_in \in InitModelInputs
    /\ fn_out = NOT_APPLIED

InitModel ==
    /\ fn_out = NOT_APPLIED
    /\ fn_out' = Applied(init_model(fn_in.listing1, fn_in.listing2))
    /\ UNCHANGED <<session_state, rerun_requested, run, init_calls, passes, kw_from,
                   cm_in, cm_out, fn_in>>

NextInitModel == InitModel

SpecInitModel == InitInitModel /\ [][NextInitModel]_vars

\* name is the first of the listed names that holds the word
IsFirstWith(listing, word, name) ==
    \E i \in 1..Len(listing.names) :
        /\ listing.names[i] = name
        /\ word \in {name[k] : k \in 1..Len(name)}
        /\ \A j \in 1..(i - 1) :
              word \notin {listing.names[j][k] : k \in 1..Len(listing.names[j])}

\* some listed name holds the word
SomeWith(listing, word) ==
    listing.ok /\ \E i \in 1..Len(listing.names) :
                     word \in {listing.names[i][k] : k \in 1..Len(listing.names[i])}

\* C18: init_model returns the first listed model whose identifier contains
\* "flash", even when a model containing "pro" is listed before it; if no
\* identifier contains "flash" it returns the first containing "pro"; if the
\* listing fails or no identifier qualifies it returns the handle for the
\* literal "gemini-1.5-flash".
C18_FlashThenProThenDefault ==
    fn_out.done =>
        /\ fn_out.value.t = "model"
        /\ SomeWith(fn_in.listing1, "flash")
              => IsFirstWith(fn_in.listing1, "flash", fn_out.value.name)
        /\ (fn_in.listing1.ok /\ ~SomeWith(fn_in.listing1, "flash")
                              /\ SomeWith(fn_in.listing2, "pro"))
              => IsFirstWith(fn_in.listing2, "pro", fn_out.value.name)
        /\ (\/ ~fn_in.listing1.ok
            \/ ~SomeWith(fn_in.listing1, "flash") /\ ~SomeWith(fn_in.listing2, "pro"))
              => fn_out.value.name = <<"gemini", "1.5", "flash">>

\* a "pro" model is listed first and a "flash" model listed after it is returned
C18_Witness ==
    /\ fn_out.done
    /\ fn_in.listing1.ok
    /\ Len(fn_in.listing1.names) >= 2
    /\ fn_in.listing1.names[1] = <<"gemini", "pro">>
    /\ fn_in.listing1.names[2] = <<"embedding">>
    /\ fn_out.value.name = <<"gemini", "flash", "8b">>

-----------------------------------------------------------------------------
(* The filename slugs of section 18 (lines 1120-1123), on their own *)

LETTERS ==
    {"a", "b", "c", "d", "e", "f", "g", "h", "i", "j", "k", "l", "m",
     "n", "o", "p", "q", "r", "s", "t", "u", "v", "w", "x", "y", "z",
     "A", "B", "C", "D", "E", "F", "G", "H", "I", "J", "K", "L", "M",
     "N", "O", "P", "Q", "R", "S", "T", "U", "V", "W", "X", "Y", "Z"}

DIGITS == {"0", "1", "2", "3", "4", "5", "6", "7", "8", "9"}

RECURSIVE re_sub_non_alnum_collapses_runs(_)
\* re_sub_non_alnum, except that a run of other characters gives one underscore
re_sub_non_alnum_collapses_runs(s) ==
    IF s = <<>> THEN <<>>
    ELSE IF Head(s) \in LETTERS \cup DIGITS
    THEN <<Head(s)>> \o re_sub_non_alnum_collapses_runs(Tail(s))
    ELSE IF Len(s) > 1 /\ s[2] \notin LETTERS \cup DIGITS
    THEN re_sub_non_alnum_collapses_runs(Tail(s))
    ELSE <<"_">> \o re_sub_non_alnum_collapses_runs(Tail(s))

\* re.sub(r"[^a-zA-Z0-9]", "_", s)
re_sub_non_alnum(s) ==
    [i \in 1..Len(s) |-> IF s[i] \in LETTERS \cup DIGITS THEN s[i] ELSE "_"]

\* lines 1120-1122
company_slug(company_name) ==
    IF Truthy(company_name) /\ company_name /= PyStr(UNKNOWN_COMPANY)
    THEN re_sub_non_alnum(company_name.s)
    ELSE <<"R", "e", "s", "u", "m", "e">>

\* line 1123
title_slug(target_title) ==
    IF target_title /= <<>> THEN re_sub_non_alnum(target_title)
    ELSE <<"R", "o", "l", "e">>

MaxSlugLen == 2      \* longest name, besides the examples, given to the slugs under test

SlugChars == {"a", "Z", "7", "&", " ", "_", "-"}

ACME == <<"A", "c", "m", "e", " ", "&", " ", "C", "o", ".">>
SENIOR_BUYER == <<"S", "e", "n", "i", "o", "r", " ", "B", "u", "y", "e", "r", "!">>

SlugInputs ==
    {[f |-> "company_slug", arg |-> c] :
        c \in {None, PyStr(UNKNOWN_COMPANY), PyStr(ACME)}
              \cup {PyStr(s) : s \in Strings(SlugChars, MaxSlugLen)}}
    \cup {[f |-> "title_slug", arg |-> t] :
             t \in {SENIOR_BUYER} \cup Strings(SlugChars, MaxSlugLen)}

InitSlug ==
    /\ session_state = STATE_DEFAULTS
    /\ rerun_requested = FALSE
    /\ run = FirstLoad
    /\ init_calls = 0
    /\ passes = <<>>
    /\ kw_from = "none"
    /\ cm_in = IDLE
    /\ cm_out = PENDING
    /\ fn_in \in SlugInputs
    /\ fn_out = NOT_APPLIED

CompanySlug ==
    /\ fn_out = NOT_APPLIED
    /\ fn_in.f = "company_slug"
    /\ fn_out' = Applied(company_slug(fn_in.arg))
    /\ UNCHANGED <<session_state, rerun_requested, run, init_calls, passes, kw_from,
                   cm_in, cm_out, fn_in>>

TitleSlug ==
    /\ fn_out = NOT_APPLIED
    /\ fn_in.f = "title_slug"
    /\ fn_out' = Applied(title_slug(fn_in.arg))
    /\ UNCHANGED <<session_state, rerun_requested, run, init_calls, passes, kw_from,
                   cm_in, cm_out, fn_in>>

NextSlug == CompanySlug \/ TitleSlug

SpecSlug == InitSlug /\ [][NextSlug]_vars

\* out is text with every character outside [a-zA-Z0-9] replaced by "_"
Underscored(text, out) ==
    /\ Len(out) = Len(text)
    /\ \A i \in 1..Len(text) :
          IF text[i] \in LETTERS \cup DIGITS THEN out[i] = text[i] ELSE out[i] = "_"

\* C19: a filename slug is its input with every character outside [a-zA-Z0-9]
\* replaced by "_", one for one (same length; "Acme & Co." gives "Acme___Co_"
\* and "Senior Buyer!" gives "Senior_Buyer_"); the company slug is "Resume"
\* when the company name is absent or "Unknown Company", and the title slug is
\* "Role" when the title is absent.
C19_Slugs ==
    fn_out.done =>
        /\ fn_in.f = "company_slug" =>
              IF fn_in.arg \in {None, PyStr(<<>>), PyStr(UNKNOWN_COMPANY)}
              THEN fn_out.value = <<"R", "e", "s", "u", "m", "e">>
              ELSE Underscored(fn_in.arg.s, fn_out.value)
        /\ fn_in.f = "title_slug" =>
              IF fn_in.arg = <<>>
              THEN fn_out.value = <<"R", "o", "l", "e">>
              ELSE Underscored(fn_in.arg, fn_out.value)
        /\ (fn_in.f = "company_slug" /\ fn_in.arg = PyStr(ACME))
              => fn_out.value = <<"A", "c", "m", "e", "_", "_", "_", "C", "o", "_">>
        /\ (fn_in.f = "title_slug" /\ fn_in.arg = SENIOR_BUYER)
              => fn_out.value = <<"S", "e", "n", "i", "o", "r", "_", "B", "u", "y", "e", "r", "_">>

\* the slug of "Acme & Co." was computed
C19_Witness ==
    /\ fn_out.done
    /\ fn_in.f = "company_slug"
    /\ fn_in.arg = PyStr(ACME)
    /\ Len(fn_out.value) = 10

-----------------------------------------------------------------------------
(* display_match_score (lines 694-740), on its own *)

NO_NOTE == [kind |-> "none"]
GAPS_WARNING == [kind |-> "warning", text |-> "This role has significant gaps compared to your profile."]
STRETCH_INFO == [kind |-> "info", text |-> "This is a stretch role."]

\* score_data.get("score", 0)
get_score(score_data) ==
    IF "score" \in DOMAIN score_data THEN score_data.score ELSE 0

\* display_match_score, except that a score on a threshold falls in the band below
display_match_score_strict_thresholds(score_data) ==
    LET score == get_score(score_data)
        band  == IF score > 80 THEN <<"#28a745", "Strong Match">>
                 ELSE IF score > 60 THEN <<"#17a2b8", "Solid Match">>
                 ELSE IF score > 40 THEN <<"#ffc107", "Stretch Role">>
                 ELSE <<"#dc3545", "Significant Gaps">>
    IN  [score |-> score, color |-> band[1], label |-> band[2],
         note  |-> IF score < 40 THEN GAPS_WARNING
                   ELSE IF score < 60 THEN STRETCH_INFO ELSE NO_NOTE]

\* lines 694-740: the score shown, the colour and label of its band, and the
\* advisory note
display_match_score(score_data) ==
    LET score == get_score(score_data)
        band  == IF score >= 80 THEN <<"#28a745", "Strong Match">>
                 ELSE IF score >= 60 THEN <<"#17a2b8", "Solid Match">>
                 ELSE IF score >= 40 THEN <<"#ffc107", "Stretch Role">>
                 ELSE <<"#dc3545", "Significant Gaps">>
    IN  [score |-> score, color |-> band[1], label |-> band[2],
         note  |-> IF score < 40 THEN GAPS_WARNING
                   ELSE IF score < 60 THEN STRETCH_INFO ELSE NO_NOTE]

MAX_SCORE == 100

ScoreInputs ==
    {[f |-> "display_match_score", score_data |-> [score |-> n]] : n \in 0..MAX_SCORE}
    \cup {[f |-> "display_match_score", score_data |-> [summary |-> "s"]]}

InitScore ==
    /\ session_state = STATE_DEFAULTS
    /\ rerun_requested = FALSE
    /\ run = FirstLoad
    /\ init_calls = 0
    /\ passes = <<>>
    /\ kw_from = "none"
    /\ cm_in = IDLE
    /\ cm_out = PENDING
    /\ fn_in \in ScoreInputs
    /\ fn_out = NOT_APPLIED

DisplayMatchScore ==
    /\ fn_out = NOT_APPLIED
    /\ fn_out' = Applied(display_match_score(fn_in.score_data))
    /\ UNCHANGED <<session_state, rerun_requested, run, init_calls, passes, kw_from,
                   cm_in, cm_out, fn_in>>

NextScore == DisplayMatchScore

SpecScore == InitScore /\ [][NextScore]_vars

\* the scorecard shows this colour and label
Band(color, label) == fn_out.value.color = color /\ fn_out.value.label = label

\* C20: the match scorecard maps every integer score 0..100 to exactly one
\* band: >= 80 "Strong Match" (#28a745), 60..79 "Solid Match" (#17a2b8),
\* 40..59 "Stretch Role" (#ffc107), < 40 "Significant Gaps" (#dc3545); the
\* advisory note is emitted exactly when the score is below 60, with the
\* significant-gaps wording for "Significant Gaps" and the stretch-role wording
\* for "Stretch Role".
C20_ScoreBands ==
    (fn_out.done /\ "score" \in DOMAIN fn_in.score_data) =>
        LET s == fn_in.score_data.score
        IN  /\ s \in 80..100 => Band("#28a745", "Strong Match")
            /\ s \in 60..79 => Band("#17a2b8", "Solid Match")
            /\ s \in 40..59 => Band("#ffc107", "Stretch Role")
            /\ s \in 0..39 => Band("#dc3545", "Significant Gaps")
            /\ fn_out.value.note /= NO_NOTE <=> s < 60
            /\ fn_out.value.label = "Significant Gaps" => fn_out.value.note = GAPS_WARNING
            /\ fn_out.value.label = "Stretch Role" => fn_out.value.note = STRETCH_INFO
            /\ fn_out.value.score = s

\* a score on the lower edge of a band was displayed
C20_Witness ==
    /\ fn_out.done
    /\ "score" \in DOMAIN fn_in.score_data
    /\ fn_in.score_data.score = 60
    /\ fn_out.value.label = "Solid Match"
    /\ fn_out.value.note = NO_NOTE

-----------------------------------------------------------------------------
(* The downloads of section 18 and create_zip_bundle (lines 666-673), on   *)
(* their own.  A byte stream is known by its size; docx_files is the dict  *)
(* in insertion order, a sequence of (label, stream) pairs.                *)

Buf(n) == [t |-> "buf", nbytes |-> n]

\* line 671: f"{label}_{company_slug}_{title_slug}.docx"
docx_name(label, cslug, tslug) ==
    <<label, "_">> \o cslug \o <<"_">> \o tslug \o <<".docx">>

\* create_zip_bundle, except that empty streams are written as well
create_zip_bundle_writes_empty(docx_files, cslug, tslug) ==
    [k \in 1..Len(docx_files) |->
        [name |-> docx_name(docx_files[k].label, cslug, tslug),
         nbytes |-> IF docx_files[k].buf = None THEN 0 ELSE docx_files[k].buf.nbytes]]

\* lines 666-673: the entries written to the archive, in order
create_zip_bundle(docx_files, cslug, tslug) ==
    LET kept == SelectSeq(docx_files,
                          LAMBDA d : d.buf /= None /\ d.buf.nbytes > 0)
    IN  [k \in 1..Len(kept) |->
            [name |-> docx_name(kept[k].label, cslug, tslug), nbytes |-> kept[k].buf.nbytes]]

\* lines 540-635 as far as the size of the result goes: the saved document
\* holds the package parts even for an empty text
markdown_to_docx_buf(md_text) == Buf(1 + Len(md_text))

NO_ZIP == <<"no zip">>

\* lines 1108-1186: the documents offered for download and the archive
display_results(ss, target_title) ==
    IF ~ss.generation_complete THEN [docx_files |-> <<>>, zip |-> NO_ZIP]
    ELSE LET cslug == company_slug(ss.company_name)
             tslug == title_slug(target_title)
             files ==
                 (IF Truthy(ss.resume_md)
                  THEN <<[label |-> "Resume", buf |-> markdown_to_docx_buf(ss.resume_md.s)]>>
                  ELSE <<>>)
                 \o (IF Truthy(ss.cover_letter_md)
                     THEN <<[label |-> "Cover_Letter",
                             buf |-> markdown_to_docx_buf(ss.cover_letter_md.s)]>>
                     ELSE <<>>)
                 \o (IF Truthy(ss.interview_md)
                     THEN <<[label |-> "Interview_Prep",
                             buf |-> markdown_to_docx_buf(ss.interview_md.s)]>>
                     ELSE <<>>)
         IN  [docx_files |-> files,
              zip |-> IF Len(files) > 1 THEN create_zip_bundle(files, cslug, tslug)
                      ELSE NO_ZIP]

MaxBufBytes == 2     \* largest stream given to create_zip_bundle under test

DOCX_LABELS == <<"Resume", "Cover_Letter", "Interview_Prep">>

\* a dict with some of the three labels, each with no stream, an empty or a
\* non-empty stream
DocxFiles ==
    {SelectSeq([k \in 1..3 |-> [label |-> DOCX_LABELS[k], buf |-> pick[k]]],
               LAMBDA d : d.buf /= [t |-> "absent"]) :
        pick \in [1..3 -> {[t |-> "absent"], None} \cup {Buf(n) : n \in 0..MaxBufBytes}]}

\* Session States the results section can see: Complete exactly when a body
\* is present
ResultStates ==
    {[STATE_DEFAULTS EXCEPT !.resume_md = r, !.cover_letter_md = c, !.interview_md = i,
                            !.company_name = co,
                            !.keywords_confirmed = Truthy(r) \/ Truthy(c) \/ Truthy(i),
                            !.generation_complete = Truthy(r) \/ Truthy(c) \/ Truthy(i),
                            !.generated_at = IF Truthy(r) \/ Truthy(c) \/ Truthy(i)
                                             THEN PyStr(NOW) ELSE None] :
        r \in {None, PyStr(<<>>), PyStr(<<"#", " ", "T">>)},
        c \in {None, PyStr(<<"D", "e", "a", "r">>)},
        i \in {None, PyStr(<<"Q", "1">>)},
        co \in {PyStr(UNKNOWN_COMPANY), PyStr(ACME)}}

ZipInputs ==
    {[f |-> "create_zip_bundle", docx_files |-> d, company_slug |-> cs, title_slug |-> ts] :
        d \in DocxFiles,
        cs \in {company_slug(None), company_slug(PyStr(ACME))},
        ts \in {title_slug(<<>>)}}
    \cup {[f |-> "display_results", ss |-> s, target_title |-> t] :
             s \in ResultStates, t \in {<<>>, SENIOR_BUYER}}

InitZip ==
    /\ session_state = STATE_DEFAULTS
    /\ rerun_requested = FALSE
    /\ run = FirstLoad
    /\ init_calls = 0
    /\ passes = <<>>
    /\ kw_from = "none"
    /\ cm_in = IDLE
    /\ cm_out = PENDING
    /\ fn_in \in ZipInputs
    /\ fn_out = NOT_APPLIED

CreateZipBundle ==
    /\ fn_out = NOT_APPLIED
    /\ fn_in.f = "create_zip_bundle"
    /\ fn_out' = Applied(create_zip_bundle(fn_in.docx_files, fn_in.company_slug,
                                           fn_in.title_slug))
    /\ UNCHANGED <<session_state, rerun_requested, run, init_calls, passes, kw_from,
                   cm_in, cm_out, fn_in>>

DisplayResults ==
    /\ fn_out = NOT_APPLIED
    /\ fn_in.f = "display_results"
    /\ fn_out' = Applied(display_results(fn_in.ss, fn_in.target_title))
    /\ UNCHANGED <<session_state, rerun_requested, run, init_calls, passes, kw_from,
                   cm_in, cm_out, fn_in>>

NextZip == CreateZipBundle \/ DisplayResults

SpecZip == InitZip /\ [][NextZip]_vars

\* the positions of the dict whose stream is not empty
NonEmptyStreams(docx_files) ==
    {k \in 1..Len(docx_files) :
        docx_files[k].buf /= None /\ docx_files[k].buf.nbytes >= 1}

\* the entry names of an archive, as a set
EntryNames(zip) == {zip[k].name : k \in 1..Len(zip)}

\* the available artifacts of a Session State
Available(ss) ==
    {k \in {"resume_md", "cover_letter_md", "interview_md"} :
        ss[k] /= None /\ ss[k].s /= <<>>}

\* C21: the archive bundle is built only in a Complete state with two or more
\* available artifacts; it contains exactly one entry per non-empty document
\* stream (empty streams are skipped), each named
\* "<Label>_<CompanySlug>_<TitleSlug>.docx"; with two non-empty streams and one
\* empty stream it has exactly two entries.
C21_ArchiveBundle ==
    fn_out.done =>
        /\ fn_in.f = "create_zip_bundle" =>
              LET d == fn_in.docx_files
              IN  /\ Len(fn_out.value) = Cardinality(NonEmptyStreams(d))
                  /\ EntryNames(fn_out.value) =
                        {<<d[k].label, "_">> \o fn_in.company_slug \o <<"_">>
                            \o fn_in.title_slug \o <<".docx">> : k \in NonEmptyStreams(d)}
                  /\ Cardinality(EntryNames(fn_out.value)) = Len(fn_out.value)
        /\ fn_in.f = "display_results" =>
              /\ fn_out.value.zip /= NO_ZIP =>
                    /\ fn_in.ss.generation_complete
                    /\ Cardinality(Available(fn_in.ss)) >= 2
                    /\ Len(fn_out.value.zip) = Cardinality(Available(fn_in.ss))
              /\ Cardinality(Available(fn_in.ss)) >= 2 => fn_out.value.zip /= NO_ZIP

\* two non-empty streams and one empty stream gave an archive of two entries
C21_Witness ==
    /\ fn_out.done
    /\ fn_in.f = "create_zip_bundle"
    /\ Len(fn_in.docx_files) = 3
    /\ fn_in.docx_files[2].buf = Buf(0)
    /\ Cardinality(NonEmptyStreams(fn_in.docx_files)) = 2
    /\ Len(fn_out.value) = 2

-----------------------------------------------------------------------------
(* markdown_to_docx (lines 540-635): text is a sequence of characters; the  *)
(* result is the sequence of paragraphs and tables added to the document,  *)
(* with a trace of which branch of the scan consumed each line.            *)

startswith(s, prefix) == Len(s) >= Len(prefix) /\ SubSeq(s, 1, Len(prefix)) = prefix
endswith(s, suffix) ==
    Len(s) >= Len(suffix) /\ SubSeq(s, Len(s) - Len(suffix) + 1, Len(s)) = suffix

\* sub in s
InStr(sub, s) == \E k \in 0..(Len(s) - Len(sub)) : SubSeq(s, k + 1, k + Len(sub)) = sub

RECURSIVE split(_, _)
\* s.split(sep) for a single character sep
split(s, sep) ==
    IF \A k \in 1..Len(s) : s[k] /= sep THEN <<s>>
    ELSE LET p == CHOOSE k \in 1..Len(s) : s[k] = sep /\ \A j \in 1..(k - 1) : s[j] /= sep
         IN  <<SubSeq(s, 1, p - 1)>> \o split(SubSeq(s, p + 1, Len(s)), sep)

UPPERCASE ==
    <<"A", "B", "C", "D", "E", "F", "G", "H", "I", "J", "K", "L", "M",
      "N", "O", "P", "Q", "R", "S", "T", "U", "V", "W", "X", "Y", "Z">>
LOWERCASE ==
    <<"a", "b", "c", "d", "e", "f", "g", "h", "i", "j", "k", "l", "m",
      "n", "o", "p", "q", "r", "s", "t", "u", "v", "w", "x", "y", "z">>

\* the character at the same place of the other alphabet, or the character itself
recase(c, from, to) ==
    IF \E k \in 1..Len(from) : from[k] = c
    THEN to[CHOOSE k \in 1..Len(from) : from[k] = c]
    ELSE c

lower(s) == [k \in 1..Len(s) |-> recase(s[k], UPPERCASE, LOWERCASE)]
upper(s) == [k \in 1..Len(s) |-> recase(s[k], LOWERCASE, UPPERCASE)]

RECURSIVE lstrip_chars(_, _)
\* s.lstrip(chars)
lstrip_chars(s, chars) ==
    IF s /= <<>> /\ Head(s) \in chars THEN lstrip_chars(Tail(s), chars) ELSE s

\* re.sub(r"\*{1,2}", "", s)
re_sub_stars(s) == SelectSeq(s, LAMBDA c : c /= "*")

\* line 603: the row holds nothing but separator characters
is_separator(row) == \A k \in 1..Len(row) : row[k] \in {"-", "|", " ", ":"}

\* line 604: [c.strip() for c in row.split("|")[1:-1]]
cells(row) ==
    LET parts == split(row, "|")
    IN  [k \in 1..(Len(parts) - 2) |-> strip(parts[k + 1])]

PHONE == <<"p", "h", "o", "n", "e">>
LINKEDIN == <<"l", "i", "n", "k", "e", "d", "i", "n">>

\* rule_of, except that the table test comes before the contact test
rule_of_table_before_contact(line) ==
    IF startswith(line, <<"#", " ">>) /\ ~startswith(line, <<"#", "#", " ">>) THEN "title"
    ELSE IF startswith(line, <<"#", "#", "#", " ">>) THEN "subtitle"
    ELSE IF startswith(line, <<"#", "#", " ">>) THEN "section"
    ELSE IF startswith(line, <<"*", " ">>) \/ startswith(line, <<"-", " ">>) THEN "bullet"
    ELSE IF startswith(line, <<"|">>) /\ endswith(line, <<"|">>) THEN "table"
    ELSE IF InStr(<<"|">>, line) /\ (\/ InStr(<<"@">>, line)
                                     \/ InStr(PHONE, lower(line))
                                     \/ InStr(LINKEDIN, lower(line))) THEN "contact"
    ELSE IF startswith(line, <<"*", "*">>) /\ InStr(<<"*", "*">>, SubSeq(line, 3, Len(line)))
    THEN "bold"
    ELSE IF startswith(line, <<"*">>) /\ endswith(line, <<"*">>)
                                      /\ ~startswith(line, <<"*", "*">>) THEN "italic"
    ELSE "regular"

\* the if/elif chain of lines 547-626: the branch taken for a non-blank line
rule_of(line) ==
    IF startswith(line, <<"#", " ">>) /\ ~startswith(line, <<"#", "#", " ">>) THEN "title"
    ELSE IF startswith(line, <<"#", "#", "#", " ">>) THEN "subtitle"
    ELSE IF startswith(line, <<"#", "#", " ">>) THEN "section"
    ELSE IF startswith(line, <<"*", " ">>) \/ startswith(line, <<"-", " ">>) THEN "bullet"
    ELSE IF InStr(<<"|">>, line) /\ (\/ InStr(<<"@">>, line)
                                     \/ InStr(PHONE, lower(line))
                                     \/ InStr(LINKEDIN, lower(line))) THEN "contact"
    ELSE IF startswith(line, <<"|">>) /\ endswith(line, <<"|">>) THEN "table"
    ELSE IF startswith(line, <<"*", "*">>) /\ InStr(<<"*", "*">>, SubSeq(line, 3, Len(line)))
    THEN "bold"
    ELSE IF startswith(line, <<"*">>) /\ endswith(line, <<"*">>)
                                      /\ ~startswith(line, <<"*", "*">>) THEN "italic"
    ELSE "regular"

\* the text of the paragraph a branch adds (for bullet, bold and regular: the
\* text handed to _add_runs)
paragraph_text(rule, line) ==
    CASE rule = "title"    -> strip(lstrip_chars(line, {"#", " "}))
      [] rule = "subtitle" -> re_sub_stars(strip(lstrip_chars(line, {"#", " "})))
      [] rule = "section"  -> upper(strip(lstrip_chars(line, {"#", " "})))
      [] rule = "bullet"   -> strip(SubSeq(line, 3, Len(line)))
      [] rule = "contact"  -> strip(re_sub_stars(line))
      [] rule = "italic"   -> strip(strip_char(line, "*"))
      [] OTHER             -> line

RECURSIVE table_block(_, _, _, _)
\* lines 601-606: the inner loop from line i on; the rows kept and the lines consumed
table_block(lines, i, table_lines, consumed) ==
    IF i <= Len(lines) /\ startswith(strip(lines[i]), <<"|">>)
    THEN LET row == strip(lines[i])
         IN  table_block(lines, i + 1,
                         IF ~is_separator(row) THEN Append(table_lines, cells(row))
                         ELSE table_lines,
                         Append(consumed, i))
    ELSE [i |-> i, table_lines |-> table_lines, consumed |-> consumed]

\* lines 607-619: the table added for the rows kept
table_of(table_lines) ==
    LET widths == {Len(table_lines[k]) : k \in 1..Len(table_lines)}
    IN  [rule  |-> "table",
         nrows |-> Len(table_lines),
         ncols |-> CHOOSE w \in widths : \A v \in widths : v <= w,
         text  |-> [k \in 1..Len(table_lines) |->
                       [c \in 1..Len(table_lines[k]) |-> re_sub_stars(table_lines[k][c])]]]

RECURSIVE scan(_, _, _, _)
\* lines 541-630: the while loop from line i on
scan(lines, i, doc, trace) ==
    IF i > Len(lines) THEN [doc |-> doc, trace |-> trace]
    ELSE LET line == strip(lines[i])
         IN  IF line = <<>>
             THEN scan(lines, i + 1, doc, Append(trace, [line |-> i, rule |-> "blank"]))
             ELSE IF rule_of(line) = "table"
             THEN LET b == table_block(lines, i, <<>>, <<>>)
                  IN  scan(lines, b.i,
                           IF b.table_lines /= <<>> THEN Append(doc, table_of(b.table_lines))
                           ELSE doc,
                           trace \o [k \in 1..Len(b.consumed) |->
                                        [line |-> b.consumed[k],
                                         rule |-> IF k = 1 THEN "table" ELSE "table_row"]])
             ELSE scan(lines, i + 1,
                       Append(doc, [rule |-> rule_of(line),
                                    text |-> paragraph_text(rule_of(line), line)]),
                       Append(trace, [line |-> i, rule |-> rule_of(line)]))

\* lines 540-635
markdown_to_docx(md_text) == scan(split(md_text, "\n"), 1, <<>>, <<>>)

MaxLines == 3        \* most lines of a text given to markdown_to_docx under test

SampleLines ==
    {<<>>,
     <<"#", " ", "T">>,
     <<"#", "#", "#", " ", "*", "S", "*">>,
     <<"#", "#", " ", "h">>,
     <<"-", " ", "b", "|", "@">>,
     <<"|", "a", "@", "b", "|">>,
     <<" ", "|", "a", "|", "b", "|">>,
     <<"|", "-", "|", "-", "|">>,
     <<"|", "c", "|">>,
     <<"|", "d", "|", "e">>,
     <<"x", "|", "P", "h", "o", "n", "e">>,
     <<"*", "*", "B", "*", "*", " ", "x">>,
     <<"*", "i", "*">>,
     <<"p">>}

RECURSIVE join(_, _)
\* sep.join(lines)
join(lines, sep) ==
    IF Len(lines) = 1 THEN lines[1]
    ELSE lines[1] \o <<sep>> \o join(Tail(lines), sep)

RenderInputs ==
    {[f |-> "markdown_to_docx", lines |-> ls, md_text |-> join(ls, "\n")] :
        ls \in UNION {[1..n -> SampleLines] : n \in 1..MaxLines}}

InitRender ==
    /\ session_state = STATE_DEFAULTS
    /\ rerun_requested = FALSE
    /\ run = FirstLoad
    /\ init_calls = 0
    /\ passes = <<>>
    /\ kw_from = "none"
    /\ cm_in = IDLE
    /\ cm_out = PENDING
    /\ fn_in \in RenderInputs
    /\ fn_out = NOT_APPLIED

MarkdownToDocx ==
    /\ fn_out = NOT_APPLIED
    /\ fn_out' = Applied(markdown_to_docx(fn_in.md_text))
    /\ UNCHANGED <<session_state, rerun_requested, run, init_calls, passes, kw_from,
                   cm_in, cm_out, fn_in>>

NextRender == MarkdownToDocx

SpecRender == InitRender /\ [][NextRender]_vars

\* the line of the text under test without its surrounding whitespace
Trimmed(k) == strip(fn_in.lines[k])

\* the pattern of a rule matches a line
Matches(rule, line) ==
    CASE rule = "title"    -> startswith(line, <<"#", " ">>)
      [] rule = "subtitle" -> startswith(line, <<"#", "#", "#", " ">>)
      [] rule = "section"  -> startswith(line, <<"#", "#", " ">>)
      [] rule = "bullet"   -> startswith(line, <<"*", " ">>) \/ startswith(line, <<"-", " ">>)
      [] rule = "contact"  -> /\ "|" \in {line[k] : k \in 1..Len(line)}
                              /\ \/ "@" \in {line[k] : k \in 1..Len(line)}
                                 \/ InStr(PHONE, lower(line))
                                 \/ InStr(LINKEDIN, lower(line))
      [] rule = "table"    -> line[1] = "|" /\ line[Len(line)] = "|"
      [] rule = "bold"     -> /\ startswith(line, <<"*", "*">>)
                              /\ \E k \in 3..(Len(line) - 1) : line[k] = "*" /\ line[k + 1] = "*"
      [] rule = "italic"   -> /\ line[1] = "*"
                              /\ line[Len(line)] = "*"
                              /\ ~startswith(line, <<"*", "*">>)
      [] OTHER             -> TRUE

RULE_ORDER ==
    <<"title", "subtitle", "section", "bullet", "contact", "table", "bold", "italic",
      "regular">>

\* the earliest rule of RULE_ORDER whose pattern matches the line
FirstMatch(line) ==
    RULE_ORDER[CHOOSE k \in 1..Len(RULE_ORDER) :
                  /\ Matches(RULE_ORDER[k], line)
                  /\ \A j \in 1..(k - 1) : ~Matches(RULE_ORDER[j], line)]

Delimited(k) ==
    /\ Trimmed(k) /= <<>>
    /\ Trimmed(k)[1] = "|"
    /\ Trimmed(k)[Len(Trimmed(k))] = "|"

\* the last line of the maximal run of "|"-delimited lines that starts at line k
BlockEnd(k) ==
    CHOOSE j \in k..Len(fn_in.lines) :
        /\ \A m \in k..j : Delimited(m)
        /\ j < Len(fn_in.lines) => ~Delimited(j + 1)

\* the rows of the block at line k that are not separator rows
Remaining(k) ==
    {m \in k..BlockEnd(k) : \E c \in 1..Len(Trimmed(m)) : Trimmed(m)[c] \notin {"-", "|", ":", " "}}

\* the number of cells of a "|"-delimited row
Width(m) == Cardinality({c \in 1..Len(Trimmed(m)) : Trimmed(m)[c] = "|"}) - 1

\* the lines at which the scan met a table start, in order, and those of them
\* whose block keeps a row
TableStarts ==
    SelectSeq([k \in 1..Len(fn_in.lines) |-> k],
              LAMBDA k : fn_out.value.trace[k].rule = "table")
TablesDue == SelectSeq(TableStarts, LAMBDA k : Remaining(k) /= {})

\* C23: when the renderer meets a line that starts and ends with "|", it
\* consumes the maximal run of consecutive "|"-delimited lines as one table
\* block, discards every separator row (only "-", "|", ":", space), and emits
\* one table whose row count is the number of remaining rows and whose column
\* count is that of the widest remaining row; scanning resumes at the first
\* line after the block and no line of the block is rendered twice or skipped.
C23_TableBlock ==
    fn_out.done =>
        LET trace  == fn_out.value.trace
            tables == SelectSeq(fn_out.value.doc, LAMBDA e : e.rule = "table")
        IN  /\ Len(trace) = Len(fn_in.lines)
            /\ \A k \in 1..Len(trace) : trace[k].line = k
            /\ \A t \in 1..Len(TableStarts) :
                  LET k == TableStarts[t]
                  IN  /\ Delimited(k)
                      /\ \A m \in (k + 1)..BlockEnd(k) : trace[m].rule = "table_row"
                      /\ BlockEnd(k) < Len(trace)
                            => trace[BlockEnd(k) + 1].rule /= "table_row"
            /\ Len(tables) = Len(TablesDue)
            /\ \A t \in 1..Len(TablesDue) :
                  LET k == TablesDue[t]
                  IN  /\ tables[t].nrows = Cardinality(Remaining(k))
                      /\ \E m \in Remaining(k) :
                            /\ tables[t].ncols = Width(m)
                            /\ \A n \in Remaining(k) : Width(n) <= Width(m)

-----------------------------------------------------------------------------
(* The confirmed keyword list *)

\* the calls of the generation pass of a run
GenerationCalls(r) ==
    SelectSeq(r.calls, LAMBDA c : c.prompt \in ArtifactPrompts \cup {"ats_analysis"})

\* C24: Confirm freezes the keyword list: once the keyword-confirmed flag is
\* set, the stored list is changed only by a successful Extract or by Start
\* Over, and every generation pass (resume, cover letter, interview prep and
\* ATS prompts) uses exactly the list stored by the most recent Confirm, never
\* a list the user has not confirmed.
C24_ConfirmFreezesKeywords ==
    [][/\ (session_state.keywords_confirmed
              /\ session_state'.keywords /= session_state.keywords)
          => (ExtractSucceeded(run') \/ run'.button = "start_over")
       /\ run'.gen =>
             /\ kw_from' \in {"confirm_after_done", "confirm_after_aborted"}
             /\ \A k \in 1..Len(GenerationCalls(run')) :
                   GenerationCalls(run')[k].kws = session_state'.keywords]_vars

\* ---------------------------------------------------------------------------
\* The generated documents and the completion flag
\* ---------------------------------------------------------------------------

\* the script run that produced the current state was a generation pass that
\* ended without any body (lines 1100-1101)
FailedGenerationPass == run.gen /\ ~session_state.generation_complete

\* C25: whenever generation_complete is true, keywords_confirmed is true, at
\* least one of the three bodies is present and the timestamp is present;
\* whenever generation_complete is false at the end of a script run other than
\* a failed generation pass, the three bodies, the timestamp and the ATS result
\* are all None.
C25_CompletionInvariant ==
    /\ session_state.generation_complete =>
          /\ session_state.keywords_confirmed
          /\ \/ Truthy(session_state.resume_md)
             \/ Truthy(session_state.cover_letter_md)
             \/ Truthy(session_state.interview_md)
          /\ session_state.generated_at /= None
    /\ (~session_state.generation_complete /\ ~FailedGenerationPass) =>
          /\ session_state.resume_md = None
          /\ session_state.cover_letter_md = None
          /\ session_state.interview_md = None
          /\ session_state.generated_at = None
          /\ session_state.ats_analysis = None

\* a pass has completed on the cover letter alone: no resume body, no ATS
\* result, and the flag, the confirmation and the timestamp are all there
C25_Witness ==
    /\ run.gen
    /\ session_state.generation_complete
    /\ session_state.keywords_confirmed
    /\ session_state.resume_md = None
    /\ Truthy(session_state.cover_letter_md)
    /\ session_state.generated_at /= None

\* C26: in every reachable state, an ATS result that is present comes with a
\* resume body that is present, and the script run that stores an ATS result is
\* a generation pass that stored the resume body from its own resume call.
C26_AtsImpliesResume ==
    /\ session_state.ats_analysis /= None => Truthy(session_state.resume_md)
    /\ (\E k \in 1..Len(run.calls) :
            run.calls[k].prompt = "ats_analysis" /\ session_state.ats_analysis /= None) =>
          /\ run.gen
          /\ \E k \in 1..Len(run.calls) :
                /\ run.calls[k].prompt = "resume"
                /\ run.calls[k].ok
                /\ session_state.resume_md = PyStr(run.calls[k].text)

\* a pass has stored both the resume body and the ATS result
C26_Witness ==
    /\ run.gen
    /\ session_state.ats_analysis /= None
    /\ Truthy(session_state.resume_md)
    /\ \E k \in 1..Len(run.calls) : run.calls[k].prompt = "ats_analysis" /\ run.calls[k].ok

====
